---- MODULE Spec2Model ----
(***************************************************************************)
(* The Sprite instance manager (sprite-core) and the Sprite orchestrator   *)
(* as one state machine.  The registry (instances), the instance objects   *)
(* (inst), the Job set (jobs) and the position of every sendToInstance     *)
(* call (disp) are the state; one action per handler or promise            *)
(* continuation.  Time is the value Date.now() returns, in milliseconds.   *)
(***************************************************************************)
EXTENDS Integers, Sequences, FiniteSets, TLC

\* ------------------------------------------------------------------ bounds
MaxInstances == 2
MaxJobs == 2
\* instance objects plus Jobs created in one run
MaxObjects == 3
MaxOutputs == 3
MaxLogLines == 1
MaxClockSteps == 1
\* the clock moves only in runs with at most this many dispatches
MaxTimedJobs == 1
\* and at most this many instance objects
MaxTimedInstances == 1
\* objects in a run that started an instance id again while a dispatch of the
\* stopped instance was still outstanding
MaxRestartObjects == 4
\* calls that fail at once, and failing stop requests, are explored only in runs
\* with at most this many dispatches
MaxProbedJobs == 1

InstanceIds == {"a"}
Channels == {"C1"}
ExitCodes == {0, 1}
\* the options of a sendToInstance call: whether opts.onMessage is given, and
\* opts.timeoutMs (0 stands for "not given")
SendOptions ==
  {[onMessage |-> TRUE, timeoutMs |-> 100], [onMessage |-> FALSE, timeoutMs |-> 0]}
\* the terminal statuses getSpriteStatus reports: state and exit_code
FinalStatuses ==
  {[state |-> "completed", code |-> 0], [state |-> "completed", code |-> 1],
   [state |-> "failed", code |-> 1], [state |-> "stopped", code |-> 1]}
\* how far Date.now() moves between two handlers
TimeSteps == {500, 600000}

\* ------------------------------------------------------- program constants
Null == 0
NoExit == -1
NoTime == -1
NoticeMsg == 0
WaitTimeoutMs == 600000

\* the keys of the object createInstanceManager returns
InterfaceMethods ==
  {"startInstance", "stopInstance", "getInstance", "getInstanceByChannel",
   "listInstances", "clearInstances", "sendToInstance", "buildArgs",
   "getJob", "listJobs", "instances", "jobs", "orchestrator"}

VARIABLES
  instances,     \* Map instanceId -> instance object (reference into inst)
  inst,          \* the instance objects ever created, by reference
  starts,        \* per instance object: the startInstance call that made it
  jobs,          \* Map jobId -> Job; jobId = position
  disp,          \* per Job: the sendToInstance call that created it
  nSprites,      \* remote targets the Sprite API has created
  stopRequests,  \* remote targets a stop request was sent for: "sent" or "failed"
  now,           \* Date.now()
  clockSteps,    \* number of clock advances so far
  reaperTimers,  \* armed stale-reaper interval timers
  call           \* the call on the manager's interface this step made, if any

vars == <<instances, inst, starts, jobs, disp, nSprites, stopRequests, now,
          clockSteps, reaperTimers, call>>

\* ---------------------------------------------------------------- the Job
NewJob ==
  [status |-> "PENDING", spriteId |-> Null, exitCode |-> NoExit, reason |-> "",
   logs |-> <<>>, artifacts |-> 0, startedAt |-> NoTime, completedAt |-> NoTime,
   onComplete |-> FALSE]

IsTerminal(job) == job.status \in {"COMPLETED", "FAILED"}

JobStart(job, sid, t) ==
  IF job.status = "PENDING"
    THEN [job EXCEPT !.status = "RUNNING", !.spriteId = sid, !.startedAt = t]
    ELSE job

JobComplete(job, code, t) ==
  IF job.status = "RUNNING"
    THEN [job EXCEPT !.status = "COMPLETED", !.exitCode = code, !.completedAt = t]
    ELSE job

JobFail(job, reason, code, t) ==
  IF job.status \in {"PENDING", "RUNNING"}
    THEN [job EXCEPT !.status = "FAILED", !.reason = reason,
                     !.exitCode = IF code = NoExit THEN @ ELSE code,
                     !.completedAt = t]
    ELSE job

\* what start reports to its caller: a call on a Job that is not PENDING is a
\* logic error
JobStartReport(job) == IF job.status = "PENDING" THEN "started" ELSE "logic error"

\* what complete and fail report to their caller: whether this call moved the
\* status
JobCompleteMoves(job) == job.status = "RUNNING"

JobFailMoves(job) == job.status \in {"PENDING", "RUNNING"}

\* an append to a terminal Job is rejected
JobAddLog(job, line) ==
  IF IsTerminal(job) THEN job ELSE [job EXCEPT !.logs = Append(@, line)]

JobAddArtifact(job) ==
  IF IsTerminal(job) THEN job ELSE [job EXCEPT !.artifacts = @ + 1]

\* ------------------------------------------------------------- the results
NoResult ==
  [settled |-> FALSE, success |-> FALSE, error |-> "", jobId |-> Null,
   hasExit |-> FALSE, exitCode |-> NoExit, streamed |-> FALSE,
   persistent |-> FALSE]

\* { success, responses, jobId, exitCode, streamed: true, persistent: true }
PersistentResult(j, ok, code) ==
  [settled |-> TRUE, success |-> ok, error |-> "", jobId |-> j,
   hasExit |-> TRUE, exitCode |-> code, streamed |-> TRUE, persistent |-> TRUE]

\* { success: job.status === COMPLETED, responses, jobId, artifacts, exitCode, streamed: true }
OneShotResult(j, job) ==
  [settled |-> TRUE, success |-> (job.status = "COMPLETED"), error |-> "",
   jobId |-> j, hasExit |-> TRUE, exitCode |-> job.exitCode, streamed |-> TRUE,
   persistent |-> FALSE]

\* the catch block's result with an exitCode key added
ErrorResult_WithExit(j, msg) ==
  [settled |-> TRUE, success |-> FALSE, error |-> msg, jobId |-> j,
   hasExit |-> TRUE, exitCode |-> 1, streamed |-> FALSE,
   persistent |-> FALSE]

\* { success: false, error: error.message, jobId }
ErrorResult(j, msg) ==
  [settled |-> TRUE, success |-> FALSE, error |-> msg, jobId |-> j,
   hasExit |-> FALSE, exitCode |-> NoExit, streamed |-> FALSE,
   persistent |-> FALSE]

\* error.message of `Sprite ${spriteId} timed out after ${timeoutMs}ms`
TimedOutMsg == "Sprite timed out after 600000ms"

ContainsTimedOut(msg) == msg = TimedOutMsg

\* a call on the manager's interface: the method, the instanceId passed, the outcome
NoCall == [op |-> "none", id |-> "", result |-> ""]

Call(op, id, result) == [op |-> op, id |-> id, result |-> result]

\* ------------------------------------------------------------------- Init
Init ==
  /\ instances = [k \in {} |-> Null]
  /\ inst = <<>>
  /\ starts = <<>>
  /\ jobs = <<>>
  /\ disp = <<>>
  /\ nSprites = 0
  /\ stopRequests = [s \in {} |-> ""]
  /\ now = 0
  /\ clockSteps = 0
  /\ reaperTimers = 0
  /\ call = NoCall

\* ----------------------------------------------------------- startInstance
IsDuplicate_Never(id) == FALSE

IsDuplicate(id) == id \in DOMAIN instances

NewInstance(o, ch, p) ==
  [sessionId |-> o, channel |-> ch, messageCount |-> 0, currentJob |-> Null,
   persistent |-> p, spriteId |-> Null]

\* a persistent start awaits spawnPersistentSprite, any other returns at once
StartResult_AlwaysSpawns(p) == "pending"

StartResult(p) == IF p THEN "pending" ELSE "ok"

StartInstance(id, ch, p) ==
  \/ /\ IsDuplicate(id)
     /\ Len(jobs) <= MaxProbedJobs
     /\ call' = Call("startInstance", id, "already running")
     /\ UNCHANGED <<instances, inst, starts, jobs, disp, nSprites, stopRequests,
                    now, clockSteps, reaperTimers>>
  \/ /\ ~IsDuplicate(id)
     /\ Len(inst) < (IF clockSteps = 0 THEN MaxInstances ELSE MaxTimedInstances)
     /\ Len(inst) + Len(jobs) < MaxObjects
     /\ LET o == Len(inst) + 1 IN
        /\ inst' = Append(inst, NewInstance(o, ch, p))
        /\ instances' = [k \in (DOMAIN instances) \cup {id} |->
                           IF k = id THEN o ELSE instances[k]]
        /\ starts' = Append(starts, [id |-> id, res |-> StartResult(p),
                                     spriteId |-> Null])
        /\ call' = Call("startInstance", id, StartResult(p))
     /\ UNCHANGED <<jobs, disp, nSprites, stopRequests, now, clockSteps,
                    reaperTimers>>

\* spawnPersistentSprite after orchestrator.spawnPersistent resolved
SpawnPersistentOk(o) ==
  /\ o \in DOMAIN starts
  /\ starts[o].res = "pending"
  /\ nSprites' = nSprites + 1
  /\ inst' = [inst EXCEPT ![o].spriteId = nSprites + 1]
  /\ starts' = [starts EXCEPT ![o].res = "ok", ![o].spriteId = nSprites + 1]
  /\ UNCHANGED <<instances, jobs, disp, stopRequests, now, clockSteps,
                 reaperTimers>>
  /\ call' = NoCall

\* the catch block of spawnPersistentSprite without instances.delete
SpawnPersistentFail_NoRollback(o) ==
  /\ o \in DOMAIN starts
  /\ starts[o].res = "pending"
  /\ starts' = [starts EXCEPT ![o].res = "failed"]
  /\ UNCHANGED <<instances, inst, jobs, disp, nSprites, stopRequests, now,
                 clockSteps, reaperTimers>>
  /\ call' = NoCall

\* spawnPersistentSprite after orchestrator.spawnPersistent rejected
SpawnPersistentFail(o) ==
  /\ o \in DOMAIN starts
  /\ starts[o].res = "pending"
  /\ instances' = [k \in (DOMAIN instances) \ {starts[o].id} |-> instances[k]]
  /\ starts' = [starts EXCEPT ![o].res = "failed"]
  /\ UNCHANGED <<inst, jobs, disp, nSprites, stopRequests, now, clockSteps,
                 reaperTimers>>
  /\ call' = NoCall

\* ------------------------------------------------------------ stopInstance
\* the stopSprite calls without the test that the Job's target differs from the
\* instance's
StopSequence_NoDistinctTest(o) ==
  (IF inst[o].spriteId # Null THEN <<inst[o].spriteId>> ELSE <<>>)
  \o
  (IF /\ inst[o].currentJob # Null
      /\ jobs[inst[o].currentJob].spriteId # Null
     THEN <<jobs[inst[o].currentJob].spriteId>> ELSE <<>>)

\* the orchestrator.stopSprite calls stopInstance makes, in order
StopSequence(o) ==
  (IF inst[o].spriteId # Null THEN <<inst[o].spriteId>> ELSE <<>>)
  \o
  (IF /\ inst[o].currentJob # Null
      /\ jobs[inst[o].currentJob].spriteId # Null
      /\ jobs[inst[o].currentJob].spriteId # inst[o].spriteId
     THEN <<jobs[inst[o].currentJob].spriteId>> ELSE <<>>)

StopTargets(o) == {StopSequence(o)[k] : k \in DOMAIN StopSequence(o)}

\* stopInstance without instances.delete
StopInstance_KeepsRecord(id) ==
  \/ /\ id \notin DOMAIN instances
     /\ Len(jobs) <= MaxProbedJobs
     /\ call' = Call("stopInstance", id, "not found")
     /\ UNCHANGED <<instances, inst, starts, jobs, disp, nSprites, stopRequests,
                    now, clockSteps, reaperTimers>>
  \/ /\ id \in DOMAIN instances
     /\ Len(jobs) <= MaxProbedJobs
     /\ call' = Call("stopInstance", id, "ok")
     /\ UNCHANGED <<instances, inst, starts, jobs, disp, nSprites, stopRequests,
                    now, clockSteps, reaperTimers>>

\* stopInstance also dropping the instance's current Job from the Job set
StopInstance_EvictsJob(id) ==
  \/ /\ id \notin DOMAIN instances
     /\ Len(jobs) <= MaxProbedJobs
     /\ call' = Call("stopInstance", id, "not found")
     /\ UNCHANGED <<instances, inst, starts, jobs, disp, nSprites, stopRequests,
                    now, clockSteps, reaperTimers>>
  \/ /\ id \in DOMAIN instances
     /\ stopRequests' = [s \in (DOMAIN stopRequests) \cup StopTargets(instances[id]) |->
                            IF s \in DOMAIN stopRequests THEN stopRequests[s]
                                                         ELSE "sent"]
     /\ instances' = [k \in (DOMAIN instances) \ {id} |-> instances[k]]
     /\ jobs' = IF inst[instances[id]].currentJob = Len(jobs) /\ Len(jobs) > 0
                 THEN SubSeq(jobs, 1, Len(jobs) - 1) ELSE jobs
     /\ call' = Call("stopInstance", id, "ok")
     /\ UNCHANGED <<inst, starts, disp, nSprites, now, clockSteps,
                    reaperTimers>>

StopInstance(id) ==
  \/ /\ id \notin DOMAIN instances
     /\ Len(jobs) <= MaxProbedJobs
     /\ call' = Call("stopInstance", id, "not found")
     /\ UNCHANGED <<instances, inst, starts, jobs, disp, nSprites, stopRequests,
                    now, clockSteps, reaperTimers>>
  \/ /\ id \in DOMAIN instances
     /\ stopRequests' = [s \in (DOMAIN stopRequests) \cup StopTargets(instances[id]) |->
                            IF s \in DOMAIN stopRequests THEN stopRequests[s]
                                                         ELSE "sent"]
     /\ instances' = [k \in (DOMAIN instances) \ {id} |-> instances[k]]
     /\ call' = [op |-> "stopInstance", id |-> id, result |-> "ok",
                 stops |-> StopSequence(instances[id])]
     /\ UNCHANGED <<inst, starts, jobs, disp, nSprites, now, clockSteps,
                    reaperTimers>>

\* orchestrator.stopSprite rejected: the .catch handler logs the error
StopSpriteFail(s) ==
  /\ s \in DOMAIN stopRequests
  /\ stopRequests[s] = "sent"
  /\ Len(jobs) <= MaxProbedJobs
  /\ stopRequests' = [stopRequests EXCEPT ![s] = "failed"]
  /\ UNCHANGED <<instances, inst, starts, jobs, disp, nSprites, now, clockSteps,
                 reaperTimers>>
  /\ call' = NoCall

\* ------------------------------------------------------- getJob / listJobs
\* the null getJob returns for an unknown jobId
NullJob == [status |-> "null"]

\* jobs.get(jobId) || null
GetJob(jobId) == IF jobId \in DOMAIN jobs THEN jobs[jobId] ELSE NullJob

\* Array.from(jobs.values()).map(job => job.toSummary())
ListJobs == [j \in DOMAIN jobs |-> [jobId |-> j, status |-> jobs[j].status]]

\* ---------------------------------------------------------- sendToInstance
NoFinal == [state |-> "", code |-> NoExit]

NewDispatch(o, mode, pc, om, tmo) ==
  [inst |-> o, mode |-> mode, pc |-> pc, onMsg |-> om, timeoutMs |-> tmo,
   waitStart |-> NoTime, msgs |-> <<>>, emitted |-> 0,
   final |-> NoFinal, result |-> NoResult, signalled |-> "none",
   onCompleteCalls |-> 0]

\* onMessage(`Sending to Sprite ...`) / onMessage(`Job ... started in Sprite ...`)
Notice(om) == IF om THEN <<NoticeMsg>> ELSE <<>>

\* every message spawns a new Sprite
UsesPersistentSprite_Never(o) == FALSE

UsesPersistentSprite(o) == inst[o].persistent /\ inst[o].spriteId # Null

\* sendToInstance up to the first await of sendToPersistentSprite
SendPersistent(o, om, tmo) ==
  LET j == Len(jobs) + 1 IN
  /\ jobs' = Append(jobs, JobStart(NewJob, inst[o].spriteId, now))
  /\ inst' = [inst EXCEPT ![o].messageCount = @ + 1, ![o].currentJob = j]
  /\ disp' = Append(disp, [NewDispatch(o, "persistent", "streaming", om, tmo)
                             EXCEPT !.msgs = Notice(om)])

\* sendToInstance up to the first await of sendToNewSprite (the POST of spawnJob)
SendOneShot(o, om, tmo) ==
  LET j == Len(jobs) + 1 IN
  /\ jobs' = Append(jobs, NewJob)
  /\ inst' = [inst EXCEPT ![o].messageCount = @ + 1, ![o].currentJob = j]
  /\ disp' = Append(disp, NewDispatch(o, "oneshot", "spawning", om, tmo))

\* sendToInstance creating and registering the Job before it looks the instance up
SendToInstance_JobFirst(id, om, tmo) ==
  \/ /\ id \notin DOMAIN instances
     /\ Len(jobs) < MaxJobs
     /\ jobs' = Append(jobs, NewJob)
     /\ disp' = Append(disp, [NewDispatch(Null, "oneshot", "done", om, tmo)
                                EXCEPT !.result = ErrorResult(Len(jobs) + 1, "not found")])
     /\ call' = Call("sendToInstance", id, "not found")
     /\ UNCHANGED <<instances, inst, starts, nSprites, stopRequests, now,
                    clockSteps, reaperTimers>>
  \/ /\ id \in DOMAIN instances
     /\ Len(jobs) < (IF clockSteps = 0 THEN MaxJobs ELSE MaxTimedJobs)
     /\ Len(inst) + Len(jobs) < MaxObjects
     /\ IF UsesPersistentSprite(instances[id])
          THEN SendPersistent(instances[id], om, tmo)
          ELSE SendOneShot(instances[id], om, tmo)
     /\ call' = Call("sendToInstance", id, "pending")
     /\ UNCHANGED <<instances, starts, nSprites, stopRequests, now, clockSteps,
                    reaperTimers>>

\* a one-shot instance was stopped with its dispatch (one without onMessage)
\* outstanding and its id is registered again, to a new one-shot instance
Restarted ==
  \E j \in DOMAIN disp :
    /\ disp[j].pc # "done"
    /\ ~disp[j].onMsg
    /\ disp[j].signalled = "none"
    /\ \A o \in DOMAIN inst : ~inst[o].persistent
    /\ \E id \in DOMAIN instances :
         instances[id] # disp[j].inst /\ starts[disp[j].inst].id = id

SendToInstance(id, om, tmo) ==
  \/ /\ id \notin DOMAIN instances
     /\ Len(jobs) <= MaxProbedJobs
     /\ call' = Call("sendToInstance", id, "not found")
     /\ UNCHANGED <<instances, inst, starts, jobs, disp, nSprites, stopRequests,
                    now, clockSteps, reaperTimers>>
  \/ /\ id \in DOMAIN instances
     /\ Len(jobs) < (IF clockSteps = 0 THEN MaxJobs ELSE MaxTimedJobs)
     /\ Len(inst) + Len(jobs) <
          (IF Restarted /\ ~om THEN MaxRestartObjects ELSE MaxObjects)
     /\ IF UsesPersistentSprite(instances[id])
          THEN SendPersistent(instances[id], om, tmo)
          ELSE SendOneShot(instances[id], om, tmo)
     /\ call' = Call("sendToInstance", id, "pending")
     /\ UNCHANGED <<instances, starts, nSprites, stopRequests, now, clockSteps,
                    reaperTimers>>

\* ------------------------------------------------- sendToPersistentSprite
ClearCurrentJob_Skipped(h, o) == h

\* instances.get(instanceId).currentJob = null: clearing the field of whatever
\* instance is registered under the id now
ClearCurrentJob_ById(h, o) ==
  IF starts[o].id \in DOMAIN instances
    THEN [h EXCEPT ![instances[starts[o].id]].currentJob = Null]
    ELSE h

\* instance.currentJob = null, on the instance object the dispatch was given
ClearCurrentJob(h, o) == [h EXCEPT ![o].currentJob = Null]

\* the onOutput callback handed to streamCommand
\* the callback pushing the line onto job.logs itself
OnOutput_DirectPush(job, line) == [job EXCEPT !.logs = Append(@, line)]

OnOutput(job, line) == JobAddLog(job, line)

Relay_Reversed(msgs, om, line) == IF om THEN <<line>> \o msgs ELSE msgs

Relay(msgs, om, line) == IF om THEN Append(msgs, line) ELSE msgs

StreamOutput(j) ==
  /\ j \in DOMAIN disp
  /\ disp[j].pc = "streaming"
  /\ disp[j].emitted < MaxOutputs
  /\ LET k == disp[j].emitted + 1 IN
     /\ jobs' = [jobs EXCEPT ![j] = OnOutput(@, k)]
     /\ disp' = [disp EXCEPT ![j].emitted = k,
                             ![j].msgs = Relay(@, disp[j].onMsg, k)]
  /\ UNCHANGED <<instances, inst, starts, nSprites, stopRequests, now,
                 clockSteps, reaperTimers>>
  /\ call' = NoCall

\* streamCommand resolved with { success: exitCode === 0, exitCode }
StreamResolve(j, code) ==
  /\ j \in DOMAIN disp
  /\ disp[j].pc = "streaming"
  /\ jobs' = [jobs EXCEPT ![j] = IF code = 0
                                   THEN JobComplete(@, code, now)
                                   ELSE JobFail(@, "Command failed", code, now)]
  /\ inst' = ClearCurrentJob(inst, disp[j].inst)
  /\ disp' = [disp EXCEPT ![j].pc = "done",
                          ![j].result = PersistentResult(j, code = 0, code)]
  /\ UNCHANGED <<instances, starts, nSprites, stopRequests, now, clockSteps,
                 reaperTimers>>
  /\ call' = NoCall

\* the catch block rethrowing: the promise of sendToInstance rejects with the
\* error and holds no structured result
Catch_Rethrow(j, job, msg) ==
  /\ jobs' = [jobs EXCEPT ![j] = JobFail(job, msg, NoExit, now)]
  /\ inst' = [inst EXCEPT ![disp[j].inst].currentJob = Null]
  /\ disp' = [disp EXCEPT ![j].pc = "done",
                          ![j].result = [NoResult EXCEPT !.error = msg]]

\* the catch block writing the Job's fields itself instead of calling job.fail
Catch_DirectWrite(j, job, msg) ==
  /\ jobs' = [jobs EXCEPT ![j] = [job EXCEPT !.status = "FAILED", !.reason = msg,
                                              !.completedAt = now]]
  /\ inst' = [inst EXCEPT ![disp[j].inst].currentJob = Null]
  /\ disp' = [disp EXCEPT ![j].pc = "done", ![j].result = ErrorResult(j, msg)]

\* the catch block of sendToPersistentSprite and of sendToNewSprite
\* (job is the Job as the rejected call left it)
Catch(j, job, msg) ==
  /\ jobs' = [jobs EXCEPT ![j] = JobFail(job, msg, NoExit, now)]
  /\ inst' = ClearCurrentJob(inst, disp[j].inst)
  /\ disp' = [disp EXCEPT ![j].pc = "done", ![j].result = ErrorResult(j, msg)]

\* streamCommand rejected (wake, exec or read error)
StreamReject(j) ==
  /\ j \in DOMAIN disp
  /\ disp[j].pc = "streaming"
  /\ Catch(j, jobs[j], "Sprite exec error")
  /\ UNCHANGED <<instances, starts, nSprites, stopRequests, now, clockSteps,
                 reaperTimers>>
  /\ call' = NoCall

\* --------------------------------------- SpriteOrchestrator.spawnJob
\* response.ok with the Job's fields written in place of job.start(spriteInfo.id)
SpawnJobOk_DirectStart(j) ==
  /\ j \in DOMAIN disp
  /\ disp[j].pc = "spawning"
  /\ nSprites' = nSprites + 1
  /\ jobs' = [jobs EXCEPT ![j] = [@ EXCEPT !.status = "RUNNING",
                                            !.spriteId = nSprites + 1,
                                            !.startedAt = now]]
  /\ disp' = [disp EXCEPT ![j].pc = "waiting", ![j].waitStart = now,
                          ![j].msgs = Notice(disp[j].onMsg)]
  /\ UNCHANGED <<instances, inst, starts, stopRequests, now, clockSteps,
                 reaperTimers>>
  /\ call' = NoCall

\* response.ok: job.start(spriteInfo.id); sendToNewSprite goes on to waitForCompletion
SpawnJobOk(j) ==
  /\ j \in DOMAIN disp
  /\ disp[j].pc = "spawning"
  /\ nSprites' = nSprites + 1
  /\ jobs' = [jobs EXCEPT ![j] = JobStart(@, nSprites + 1, now)]
  /\ disp' = [disp EXCEPT ![j].pc = "waiting", ![j].waitStart = now,
                          ![j].msgs = Notice(disp[j].onMsg)]
  /\ UNCHANGED <<instances, inst, starts, stopRequests, now, clockSteps,
                 reaperTimers>>
  /\ call' = NoCall

\* spawnJob's catch block rethrowing without job.fail
SpawnJobRejects_NoFail(job, t) == job

\* the Job as spawnJob's catch block leaves it: job.fail(error.message); throw error
SpawnJobRejects(job, t) == JobFail(job, "Sprite API error", NoExit, t)

\* !response.ok or fetch rejected; the rejection runs the catch block of
\* sendToNewSprite
SpawnJobFail(j) ==
  /\ j \in DOMAIN disp
  /\ disp[j].pc = "spawning"
  /\ Catch(j, SpawnJobRejects(jobs[j], now), "Sprite API error")
  /\ UNCHANGED <<instances, starts, nSprites, stopRequests, now, clockSteps,
                 reaperTimers>>
  /\ call' = NoCall

\* ------------------------------------------------------- sendToNewSprite
\* the streamLogs callback of streamJobLogs
LogLine(j) ==
  /\ j \in DOMAIN disp
  /\ disp[j].pc = "waiting"
  /\ disp[j].onMsg
  /\ disp[j].emitted < MaxLogLines
  /\ LET k == disp[j].emitted + 1 IN
     /\ jobs' = [jobs EXCEPT ![j] = JobAddLog(@, k)]
     /\ disp' = [disp EXCEPT ![j].emitted = k, ![j].msgs = Append(@, k)]
  /\ UNCHANGED <<instances, inst, starts, nSprites, stopRequests, now,
                 clockSteps, reaperTimers>>
  /\ call' = NoCall

WaitExpired(j) == now - disp[j].waitStart >= WaitTimeoutMs

\* waitForCompletion: getSpriteStatus returned completed, failed or stopped
PollTerminal(j, final) ==
  /\ j \in DOMAIN disp
  /\ disp[j].pc = "waiting"
  /\ ~WaitExpired(j)
  /\ disp' = [disp EXCEPT ![j].pc = "collecting",
                          ![j].final = final]
  /\ UNCHANGED <<instances, inst, starts, jobs, nSprites, stopRequests, now,
                 clockSteps, reaperTimers>>
  /\ call' = NoCall

\* waitForCompletion: getSpriteStatus threw; the catch block runs
PollError(j) ==
  /\ j \in DOMAIN disp
  /\ disp[j].pc = "waiting"
  /\ ~WaitExpired(j)
  /\ Catch(j, jobs[j], "Failed to get sprite status")
  /\ UNCHANGED <<instances, starts, nSprites, stopRequests, now, clockSteps,
                 reaperTimers>>
  /\ call' = NoCall

\* waitForCompletion: the loop condition failed, throw `... timed out after ...`;
\* the catch block runs
PollTimeout(j) ==
  /\ j \in DOMAIN disp
  /\ disp[j].pc = "waiting"
  /\ WaitExpired(j)
  /\ Catch(j, jobs[j], TimedOutMsg)
  /\ UNCHANGED <<instances, starts, nSprites, stopRequests, now, clockSteps,
                 reaperTimers>>
  /\ call' = NoCall

\* the status update writing the Job's fields itself instead of calling
\* job.complete / job.fail
FinalUpdate_DirectWrite(job, final, t) ==
  IF final.state = "completed" /\ final.code = 0
    THEN [job EXCEPT !.status = "COMPLETED", !.exitCode = final.code,
                     !.completedAt = t]
    ELSE [job EXCEPT !.status = "FAILED", !.reason = "Sprite execution failed",
                     !.exitCode = final.code, !.completedAt = t]

\* the status update marking the Job COMPLETED itself on a clean exit, whatever
\* its status
FinalUpdate_ForceComplete(job, final, t) ==
  IF final.state = "completed" /\ final.code = 0
    THEN [job EXCEPT !.status = "COMPLETED", !.exitCode = final.code,
                     !.completedAt = t]
    ELSE JobFail(job, "Sprite execution failed", final.code, t)

\* "Update job status"
FinalUpdate(job, final, t) ==
  IF final.state = "completed" /\ final.code = 0
    THEN JobComplete(job, final.code, t)
    ELSE JobFail(job, "Sprite execution failed", final.code, t)

\* sendToNewSprite whose `await logPromise` never settles when onMessage is given
Finish_LogStreamNeverEnds(j, artifactsOk) ==
  /\ j \in DOMAIN disp
  /\ disp[j].pc = "collecting"
  /\ ~disp[j].onMsg
  /\ LET collected == IF artifactsOk THEN JobAddArtifact(jobs[j]) ELSE jobs[j]
         job == FinalUpdate(collected, disp[j].final, now) IN
     /\ jobs' = [jobs EXCEPT ![j] = job]
     /\ disp' = [disp EXCEPT ![j].pc = "done", ![j].final = NoFinal,
                             ![j].result = OneShotResult(j, job)]
  /\ inst' = ClearCurrentJob(inst, disp[j].inst)
  /\ UNCHANGED <<instances, starts, nSprites, stopRequests, now, clockSteps,
                 reaperTimers>>
  /\ call' = NoCall

\* getArtifacts returned (or threw), then the status update and the result
Finish(j, artifactsOk) ==
  /\ j \in DOMAIN disp
  /\ disp[j].pc = "collecting"
  /\ LET collected == IF artifactsOk THEN JobAddArtifact(jobs[j]) ELSE jobs[j]
         job == FinalUpdate(collected, disp[j].final, now) IN
     /\ jobs' = [jobs EXCEPT ![j] = job]
     /\ disp' = [disp EXCEPT ![j].pc = "done", ![j].final = NoFinal,
                             ![j].result = OneShotResult(j, job)]
  /\ inst' = ClearCurrentJob(inst, disp[j].inst)
  /\ UNCHANGED <<instances, starts, nSprites, stopRequests, now, clockSteps,
                 reaperTimers>>
  /\ call' = NoCall

\* ------------------------------------------- the external completion signal
\* the webhook receiver: job.complete(exitCode) or job.fail(reason, exitCode),
\* then job.onComplete(job) -- a TypeError in the receiver when none is registered
Signals ==
  {[status |-> "completed", exitCode |-> 0], [status |-> "failed", exitCode |-> 1]}

Signal(job, kind, code, t) ==
  IF kind = "completed"
    THEN JobComplete(job, code, t)
    ELSE JobFail(job, "agent crashed", code, t)

ExternalSignal(j, kind, code) ==
  /\ j \in DOMAIN jobs
  /\ LET job == Signal(jobs[j], kind, code, now) IN
     /\ job # jobs[j]
     /\ jobs' = [jobs EXCEPT ![j] = job]
     /\ disp' = [disp EXCEPT ![j].signalled = kind,
                             ![j].onCompleteCalls =
                                IF jobs[j].onComplete THEN @ + 1 ELSE @]
  /\ UNCHANGED <<instances, inst, starts, nSprites, stopRequests, now,
                 clockSteps, reaperTimers>>
  /\ call' = NoCall

\* ------------------------------------------------------------------- time
AdvanceTime(d) ==
  /\ clockSteps < MaxClockSteps
  /\ Len(jobs) <= MaxTimedJobs
  /\ Len(inst) <= MaxTimedInstances
  /\ now' = now + d
  /\ clockSteps' = clockSteps + 1
  /\ UNCHANGED <<instances, inst, starts, jobs, disp, nSprites, stopRequests,
                 reaperTimers>>
  /\ call' = NoCall

\* --------------------------------------------------------- the stale reaper
\* manager.startStaleReaper() / manager.stopStaleReaper(): the returned object
\* has no such key, the call is a TypeError and arms or clears no timer
ReaperMethods == {"startStaleReaper", "stopStaleReaper"}

CallMissingMethod(m) ==
  /\ m \notin InterfaceMethods
  /\ Len(jobs) <= MaxProbedJobs
  /\ call' = Call(m, "", "TypeError")
  /\ UNCHANGED <<instances, inst, starts, jobs, disp, nSprites, stopRequests,
                 now, clockSteps, reaperTimers>>

\* ------------------------------------------------------------------- Next
Next ==
  \/ \E id \in InstanceIds, ch \in Channels, p \in BOOLEAN : StartInstance(id, ch, p)
  \/ \E o \in 1..MaxInstances : SpawnPersistentOk(o)
  \/ \E o \in 1..MaxInstances : SpawnPersistentFail(o)
  \/ \E id \in InstanceIds : StopInstance(id)
  \/ \E s \in 1..MaxObjects : StopSpriteFail(s)
  \/ \E id \in InstanceIds, opts \in SendOptions :
        SendToInstance(id, opts.onMessage, opts.timeoutMs)
  \/ \E j \in 1..MaxJobs : StreamOutput(j)
  \/ \E j \in 1..MaxJobs, code \in ExitCodes : StreamResolve(j, code)
  \/ \E j \in 1..MaxJobs : StreamReject(j)
  \/ \E j \in 1..MaxJobs : SpawnJobOk(j)
  \/ \E j \in 1..MaxJobs : SpawnJobFail(j)
  \/ \E j \in 1..MaxJobs : LogLine(j)
  \/ \E j \in 1..MaxJobs, final \in FinalStatuses : PollTerminal(j, final)
  \/ \E j \in 1..MaxJobs : PollError(j)
  \/ \E j \in 1..MaxJobs : PollTimeout(j)
  \/ \E j \in 1..MaxJobs, ok \in BOOLEAN : Finish(j, ok)
  \/ \E j \in 1..MaxJobs, sig \in Signals : ExternalSignal(j, sig.status, sig.exitCode)
  \/ \E d \in TimeSteps : AdvanceTime(d)
  \/ \E m \in ReaperMethods : CallMissingMethod(m)

Spec == Init /\ [][Next]_vars

\* ------------------------------------------------- the command escaper
\* Text is a sequence of characters.  A word of the fixed command text (claude,
\* --session-id, the session's UUID, ...) holds no character the shell treats
\* specially and stands as one element.
MaxMsgLen == 3

\* ("backtick" stands for the backquote character)
EscAlphabet == {"'", "backtick", "$", "(", ")", ";", "|", " ", "\n", "\"", "\\", "a"}

\* the classic breakout payload  '; rm -rf /; echo '
BreakoutPayload ==
  <<"'", ";", " ", "rm", " ", "-rf", " ", "/", ";", " ", "echo", " ", "'">>

Messages ==
  UNION {[1..n -> EscAlphabet] : n \in 0..MaxMsgLen} \cup {BreakoutPayload}

AgentTypes == {"claude", "opencode"}

\* the sessionId startInstance drew with randomUUID()
SessionId == "uuid"

\* str.replace(/'/g, "'\\''") leaving the text as it is
ReplaceQuotes_Identity(str) == str

\* str.replace(/'/g, "\\'")
RECURSIVE ReplaceQuotes_Backslash(_)
ReplaceQuotes_Backslash(str) ==
  IF str = <<>> THEN <<>>
  ELSE (IF Head(str) = "'" THEN <<"\\", "'">> ELSE <<Head(str)>>)
         \o ReplaceQuotes_Backslash(Tail(str))

\* str.replace(/'/g, "'\\''")
RECURSIVE ReplaceQuotes(_)
ReplaceQuotes(str) ==
  IF str = <<>> THEN <<>>
  ELSE (IF Head(str) = "'" THEN <<"'", "\\", "'", "'">> ELSE <<Head(str)>>)
         \o ReplaceQuotes(Tail(str))

\* the command with the escaped message not wrapped in quotes
BuildAgentCommand_Unquoted(message, sessionId, type) ==
  LET escapedMessage == ReplaceQuotes(message) IN
  IF type = "opencode"
    THEN <<"opencode", " ", "run", " ", "--format", " ", "json", " ", "--session",
           " ", "'", sessionId, "'", " ", "--", " ">>
           \o escapedMessage
    ELSE <<"claude", " ", "--dangerously-skip-permissions", " ", "--output-format",
           " ", "stream-json", " ", "--session-id", " ", "'", sessionId, "'", " ",
           "-p", " ">>
           \o escapedMessage

BuildAgentCommand(message, sessionId, type) ==
  LET escapedMessage == ReplaceQuotes(message) IN
  IF type = "opencode"
    THEN <<"opencode", " ", "run", " ", "--format", " ", "json", " ", "--session",
           " ", "'", sessionId, "'", " ", "--", " ", "'">>
           \o escapedMessage \o <<"'">>
    ELSE <<"claude", " ", "--dangerously-skip-permissions", " ", "--output-format",
           " ", "stream-json", " ", "--session-id", " ", "'", sessionId, "'", " ",
           "-p", " ", "'">>
           \o escapedMessage \o <<"'">>

\* String.prototype.split(sep): the pieces between the separators
RECURSIVE SplitFrom(_, _, _)
SplitFrom(str, sep, piece) ==
  IF str = <<>> THEN <<piece>>
  ELSE IF Head(str) = sep
         THEN <<piece>> \o SplitFrom(Tail(str), sep, <<>>)
         ELSE SplitFrom(Tail(str), sep, Append(piece, Head(str)))

Split(str, sep) == SplitFrom(str, sep, <<>>)

\* Array.prototype.join(sep)
RECURSIVE Join(_, _)
Join(pieces, sep) ==
  IF pieces = <<>> THEN <<>>
  ELSE IF Len(pieces) = 1 THEN Head(pieces)
  ELSE Head(pieces) \o <<sep>> \o Join(Tail(pieces), sep)

BuildArgs(message, sessionId, type) ==
  Split(BuildAgentCommand(message, sessionId, type), " ")

\* SpriteOrchestrator._escapeShell
EscapeShell(str) ==
  IF str = <<>> THEN <<"\"", "\"">>
  ELSE <<"'">> \o ReplaceQuotes(str) \o <<"'">>

\* ------------------------------------------------------------- /bin/sh -c
\* How the POSIX shell reads a command line, character by character.  The
\* scanner is in one of: "p" unquoted, "s" inside single quotes, "d" inside
\* double quotes, "pe" / "de" after a backslash.  Each character gets a tag:
\*   "sq" "dq" "esc" "plain"   a literal character of a word
\*   "open" "close"            the single quotes around a quoted part
\*   "dopen" "dclose"          the double quotes around a quoted part
\*   "bs"                      a backslash that quotes the next character
\*   "cont"                    the newline of a line continuation
\*   "blank"                   an unquoted blank, which ends a word
\*   "op"                      a character the shell acts on: ; | ( ) newline
\*                             unquoted, $ and backquote unless single-quoted
ShellOperators == {";", "|", "(", ")", "\n", "$", "backtick"}

DoubleQuoteEscapable == {"$", "backtick", "\"", "\\", "\n"}

ScanTag(c, mode, next) ==
  CASE mode = "s" -> IF c = "'" THEN "close" ELSE "sq"
    [] mode = "pe" -> IF c = "\n" THEN "cont" ELSE "esc"
    [] mode = "de" -> IF c = "\n" THEN "cont" ELSE "esc"
    [] mode = "d" ->
         IF c = "\"" THEN "dclose"
         ELSE IF c = "\\" /\ next \in DoubleQuoteEscapable THEN "bs"
         ELSE IF c \in {"$", "backtick"} THEN "op"
         ELSE "dq"
    [] OTHER ->
         IF c = "'" THEN "open"
         ELSE IF c = "\"" THEN "dopen"
         ELSE IF c = "\\" THEN "bs"
         ELSE IF c = " " THEN "blank"
         ELSE IF c \in ShellOperators THEN "op"
         ELSE "plain"

ScanMode(tag, mode) ==
  CASE tag = "open" -> "s"
    [] tag = "close" -> "p"
    [] tag = "dopen" -> "d"
    [] tag = "dclose" -> "p"
    [] tag = "bs" -> IF mode = "d" THEN "de" ELSE "pe"
    [] tag \in {"esc", "cont"} -> IF mode = "de" THEN "d" ELSE "p"
    [] OTHER -> mode

\* the tags of the characters of cmd from position i on, read in the given mode
RECURSIVE ScanFrom(_, _, _)
ScanFrom(cmd, i, mode) ==
  IF i > Len(cmd) THEN <<>>
  ELSE LET next == IF i < Len(cmd) THEN cmd[i + 1] ELSE ""
           tag == ScanTag(cmd[i], mode, next)
       IN <<tag>> \o ScanFrom(cmd, i + 1, ScanMode(tag, mode))

ScanTags(cmd) == ScanFrom(cmd, 1, "p")

\* the mode the scanner is in after each character of cmd from position i on
RECURSIVE ScanModesFrom(_, _, _)
ScanModesFrom(cmd, i, mode) ==
  IF i > Len(cmd) THEN <<>>
  ELSE LET next == IF i < Len(cmd) THEN cmd[i + 1] ELSE ""
           after == ScanMode(ScanTag(cmd[i], mode, next), mode)
       IN <<after>> \o ScanModesFrom(cmd, i + 1, after)

\* the mode the scanner is in after the last character
EndMode(cmd) ==
  LET modes == ScanModesFrom(cmd, 1, "p") IN
  IF modes = <<>> THEN "p" ELSE modes[Len(modes)]

Word(text) == [op |-> FALSE, text |-> text]

Operator(c) == [op |-> TRUE, text |-> <<c>>]

\* the words and operators of cmd from position i on; cur is the word being
\* read and has tells whether one is being read (a quoted part may be empty)
RECURSIVE WordsFrom(_, _, _, _, _)
WordsFrom(cmd, tags, i, cur, has) ==
  LET done == IF has THEN <<Word(cur)>> ELSE <<>> IN
  IF i > Len(cmd) THEN done
  ELSE CASE tags[i] \in {"sq", "dq", "esc", "plain"} ->
              WordsFrom(cmd, tags, i + 1, Append(cur, cmd[i]), TRUE)
         [] tags[i] \in {"open", "close", "dopen", "dclose"} ->
              WordsFrom(cmd, tags, i + 1, cur, TRUE)
         [] tags[i] \in {"bs", "cont"} ->
              WordsFrom(cmd, tags, i + 1, cur, has)
         [] tags[i] = "blank" ->
              done \o WordsFrom(cmd, tags, i + 1, <<>>, FALSE)
         [] OTHER ->
              done \o <<Operator(cmd[i])>> \o WordsFrom(cmd, tags, i + 1, <<>>, FALSE)

\* what the shell makes of cmd: its words in order, an operator wherever the
\* shell would act on a character, and "unterminated" when a quote is left open
ShellWords(cmd) ==
  WordsFrom(cmd, ScanTags(cmd), 1, <<>>, FALSE)
    \o (IF EndMode(cmd) = "p" THEN <<>> ELSE <<Operator("unterminated")>>)

\* ------------------------------------------- calls of the escaping functions
\* manager.buildArgs(message, projectDir, sessionId)
BuildArgsCall(message, type) ==
  /\ call = NoCall
  /\ call' = [op |-> "buildArgs", id |-> "", message |-> message,
              agentType |-> type,
              result |-> BuildArgs(message, SessionId, type)]
  /\ UNCHANGED <<instances, inst, starts, jobs, disp, nSprites, stopRequests,
                 now, clockSteps, reaperTimers>>

\* orchestrator._escapeShell(str)
EscapeShellCall(str) ==
  /\ call = NoCall
  /\ call' = [op |-> "_escapeShell", id |-> "", message |-> str,
              agentType |-> "", result |-> EscapeShell(str)]
  /\ UNCHANGED <<instances, inst, starts, jobs, disp, nSprites, stopRequests,
                 now, clockSteps, reaperTimers>>

EscaperNext ==
  \/ \E message \in Messages, type \in AgentTypes : BuildArgsCall(message, type)
  \/ \E str \in Messages : EscapeShellCall(str)

EscaperSpec == Init /\ [][EscaperNext]_vars

\* ------------------------------------------------- progress of a dispatch
\* The manager's operations in runs with at most MaxLiveInstances instance
\* objects and MaxLiveJobs dispatches, with the scheduling the event loop
\* gives: every Orchestrator call a dispatch awaits returns or rejects, and
\* the polling loop of waitForCompletion ends (a terminal status, an error of
\* getSpriteStatus, or its own timeout once the clock has passed it).
MaxLiveInstances == 1
MaxLiveJobs == 1

LiveNext ==
  \/ \E id \in InstanceIds, ch \in Channels, p \in BOOLEAN :
        Len(inst) < MaxLiveInstances /\ StartInstance(id, ch, p)
  \/ \E o \in 1..MaxLiveInstances : SpawnPersistentOk(o)
  \/ \E o \in 1..MaxLiveInstances : SpawnPersistentFail(o)
  \/ \E id \in InstanceIds : id \in DOMAIN instances /\ StopInstance(id)
  \/ \E id \in InstanceIds, opts \in SendOptions :
        /\ id \in DOMAIN instances
        /\ Len(jobs) < MaxLiveJobs
        /\ SendToInstance(id, opts.onMessage, opts.timeoutMs)
  \/ \E j \in 1..MaxLiveJobs : StreamOutput(j)
  \/ \E j \in 1..MaxLiveJobs, code \in ExitCodes : StreamResolve(j, code)
  \/ \E j \in 1..MaxLiveJobs : StreamReject(j)
  \/ \E j \in 1..MaxLiveJobs : SpawnJobOk(j)
  \/ \E j \in 1..MaxLiveJobs : SpawnJobFail(j)
  \/ \E j \in 1..MaxLiveJobs : LogLine(j)
  \/ \E j \in 1..MaxLiveJobs, final \in FinalStatuses : PollTerminal(j, final)
  \/ \E j \in 1..MaxLiveJobs : PollError(j)
  \/ \E j \in 1..MaxLiveJobs : PollTimeout(j)
  \/ \E j \in 1..MaxLiveJobs, ok \in BOOLEAN : Finish(j, ok)
  \/ \E j \in 1..MaxLiveJobs, sig \in Signals :
        ExternalSignal(j, sig.status, sig.exitCode)
  \/ \E d \in TimeSteps : AdvanceTime(d)

\* streamCommand settles
StreamSettles(j) == (\E code \in ExitCodes : StreamResolve(j, code)) \/ StreamReject(j)

\* the POST of spawnJob settles
SpawnJobSettles(j) == SpawnJobOk(j) \/ SpawnJobFail(j)

\* waitForCompletion returns or throws
WaitSettles(j) ==
  (\E final \in FinalStatuses : PollTerminal(j, final)) \/ PollError(j) \/ PollTimeout(j)

\* streamLogs and getArtifacts settle
CollectSettles(j) == \E ok \in BOOLEAN : Finish(j, ok)

Fairness ==
  \A j \in 1..MaxLiveJobs :
    /\ WF_vars(StreamSettles(j))
    /\ WF_vars(SpawnJobSettles(j))
    /\ WF_vars(WaitSettles(j))
    /\ WF_vars(CollectSettles(j))

LiveSpec == Init /\ [][LiveNext]_vars /\ Fairness

\* ------------------------- getInstance / getInstanceByChannel / listInstances
\* The lookups, in runs with two instance ids, two channels, one-shot
\* instances and at most MaxLookupJobs dispatches.
MaxLookupJobs == 1

LookupIds == {"a", "b"}

LookupChannels == {"C1", "C2"}

\* the arguments the lookups are called with: the above and one nobody uses
LookupIdArgs == LookupIds \cup {"unknown"}

LookupChannelArgs == LookupChannels \cup {"unknown"}

\* instances.get(instanceId) || null: the live instance object
GetInstance(instanceId) ==
  IF instanceId \in DOMAIN instances THEN instances[instanceId] ELSE Null

\* the registered ids in the Map's iteration order (the order of instances.set)
RECURSIVE EntriesFrom(_)
EntriesFrom(o) ==
  IF o > Len(inst) THEN <<>>
  ELSE (IF \E id \in DOMAIN instances : instances[id] = o
          THEN <<CHOOSE id \in DOMAIN instances : instances[id] = o>>
          ELSE <<>>) \o EntriesFrom(o + 1)

Entries == EntriesFrom(1)

NullEntry == [instanceId |-> "", instance |-> Null]

\* for (const [instanceId, instance] of instances) if (instance.channel === channelId) ...
RECURSIVE FirstOnChannel(_, _)
FirstOnChannel(ids, channelId) ==
  IF ids = <<>> THEN NullEntry
  ELSE IF inst[instances[Head(ids)]].channel = channelId
         THEN [instanceId |-> Head(ids), instance |-> instances[Head(ids)]]
         ELSE FirstOnChannel(Tail(ids), channelId)

GetInstanceByChannel(channelId) == FirstOnChannel(Entries, channelId)

NullSummary == [live |-> FALSE, jobId |-> Null, status |-> "null",
                exitCode |-> NoExit, logCount |-> 0]

\* job.toSummary(): a new object holding status, exit code and log count
ToSummary(j) ==
  [live |-> FALSE, jobId |-> j, status |-> jobs[j].status,
   exitCode |-> jobs[j].exitCode, logCount |-> Len(jobs[j].logs)]

\* currentJob: instance.currentJob (the live Job itself)
ListedCurrentJob_Live(o) ==
  IF inst[o].currentJob # Null
    THEN [ToSummary(inst[o].currentJob) EXCEPT !.live = TRUE]
    ELSE NullSummary

\* currentJob: instance.currentJob ? instance.currentJob.toSummary() : null
ListedCurrentJob(o) ==
  IF inst[o].currentJob # Null THEN ToSummary(inst[o].currentJob) ELSE NullSummary

\* ({ instanceId, ...instance, currentJob: ... })
ListedEntry(id) ==
  LET o == instances[id] IN
  [instanceId |-> id, sessionId |-> inst[o].sessionId, channel |-> inst[o].channel,
   messageCount |-> inst[o].messageCount, persistent |-> inst[o].persistent,
   spriteId |-> inst[o].spriteId, currentJob |-> ListedCurrentJob(o)]

ListInstances == [k \in DOMAIN Entries |-> ListedEntry(Entries[k])]

GetInstanceCall(instanceId) ==
  /\ call' = [op |-> "getInstance", id |-> instanceId,
              result |-> GetInstance(instanceId)]
  /\ UNCHANGED <<instances, inst, starts, jobs, disp, nSprites, stopRequests,
                 now, clockSteps, reaperTimers>>

GetInstanceByChannelCall(channelId) ==
  /\ call' = [op |-> "getInstanceByChannel", id |-> channelId,
              result |-> GetInstanceByChannel(channelId)]
  /\ UNCHANGED <<instances, inst, starts, jobs, disp, nSprites, stopRequests,
                 now, clockSteps, reaperTimers>>

ListInstancesCall ==
  /\ call' = [op |-> "listInstances", id |-> "", result |-> ListInstances,
              written |-> FALSE]
  /\ UNCHANGED <<instances, inst, starts, jobs, disp, nSprites, stopRequests,
                 now, clockSteps, reaperTimers>>

\* the caller of listInstances writes list[k].currentJob.status = 'CHANGED':
\* the write lands in the object the entry holds, the live Job if it is one
WriteToListed(k) ==
  /\ call.op = "listInstances"
  /\ ~call.written
  /\ k \in DOMAIN call.result
  /\ call.result[k].currentJob # NullSummary
  /\ call' = [call EXCEPT !.written = TRUE,
                          !.result[k].currentJob.status = "CHANGED"]
  /\ jobs' = IF call.result[k].currentJob.live
               THEN [jobs EXCEPT ![call.result[k].currentJob.jobId].status = "CHANGED"]
               ELSE jobs
  /\ UNCHANGED <<instances, inst, starts, disp, nSprites, stopRequests, now,
                 clockSteps, reaperTimers>>

LookupNext ==
  \/ \E id \in LookupIds, ch \in LookupChannels :
        id \notin DOMAIN instances /\ StartInstance(id, ch, FALSE)
  \/ \E id \in LookupIds : id \in DOMAIN instances /\ StopInstance(id)
  \/ \E id \in LookupIds, opts \in SendOptions :
        /\ id \in DOMAIN instances
        /\ Len(jobs) < MaxLookupJobs
        /\ SendToInstance(id, opts.onMessage, opts.timeoutMs)
  \/ \E j \in 1..MaxLookupJobs : SpawnJobOk(j)
  \/ \E j \in 1..MaxLookupJobs : SpawnJobFail(j)
  \/ \E j \in 1..MaxLookupJobs : LogLine(j)
  \/ \E j \in 1..MaxLookupJobs, final \in FinalStatuses : PollTerminal(j, final)
  \/ \E j \in 1..MaxLookupJobs : PollError(j)
  \/ \E j \in 1..MaxLookupJobs, ok \in BOOLEAN : Finish(j, ok)
  \/ \E id \in LookupIdArgs : GetInstanceCall(id)
  \/ \E ch \in LookupChannelArgs : GetInstanceByChannelCall(ch)
  \/ ListInstancesCall
  \/ \E k \in 1..MaxInstances : WriteToListed(k)

LookupSpec == Init /\ [][LookupNext]_vars

\* --------------------------------------------------------------- chunkText
\* Text is a sequence of characters; the loop of chunkText is one step per
\* evaluation of its condition.
MaxTextLen == 5
MaxChunkLength == 3

ChunkAlphabet == {"a", " ", "\n"}

Texts == UNION {[1..n -> ChunkAlphabet] : n \in 0..MaxTextLen}

Whitespace == {" ", "\n"}

\* String.prototype.lastIndexOf(c, fromIndex): the greatest index (from 0) at
\* or before fromIndex that holds c, or -1
LastIndexOf(str, c, fromIndex) ==
  LET found == {i \in 0..(Len(str) - 1) : i <= fromIndex /\ str[i + 1] = c} IN
  IF found = {} THEN -1 ELSE CHOOSE i \in found : \A k \in found : k <= i

\* String.prototype.slice(start, end)
Slice(str, start, end) == SubSeq(str, start + 1, end)

\* String.prototype.trim()
RECURSIVE TrimStart(_)
TrimStart(str) ==
  IF str # <<>> /\ Head(str) \in Whitespace THEN TrimStart(Tail(str)) ELSE str

RECURSIVE TrimEnd(_)
TrimEnd(str) ==
  IF str # <<>> /\ str[Len(str)] \in Whitespace
    THEN TrimEnd(SubSeq(str, 1, Len(str) - 1))
    ELSE str

Trim(str) == TrimEnd(TrimStart(str))

\* the break point found with lastIndexOf searching the whole text
BreakPoint_PastLimit(remaining, maxLength) ==
  LET atNewline == LastIndexOf(remaining, "\n", Len(remaining))
      atSpace == LastIndexOf(remaining, " ", Len(remaining))
      first == atNewline
      second == IF first = -1 \/ 2 * first < maxLength THEN atSpace ELSE first
  IN IF second = -1 \/ 2 * second < maxLength THEN maxLength ELSE second

\* the break point of one iteration: the last newline at or before maxLength,
\* else the last blank, each only in the second half, else maxLength
BreakPoint(remaining, maxLength) ==
  LET atNewline == LastIndexOf(remaining, "\n", maxLength)
      atSpace == LastIndexOf(remaining, " ", maxLength)
      first == atNewline
      second == IF first = -1 \/ 2 * first < maxLength THEN atSpace ELSE first
  IN IF second = -1 \/ 2 * second < maxLength THEN maxLength ELSE second

\* chunkText(text, maxLength) up to the first evaluation of the loop condition
ChunkTextCall(text, maxLength) ==
  /\ call = NoCall
  /\ call' = [op |-> "chunkText", id |-> "", text |-> text, maxLength |-> maxLength,
              chunks |-> <<>>, remaining |-> text, pc |-> "loop"]
  /\ UNCHANGED <<instances, inst, starts, jobs, disp, nSprites, stopRequests,
                 now, clockSteps, reaperTimers>>

\* while (remaining.length > 0) failed: return chunks
ChunkReturn ==
  /\ call.op = "chunkText"
  /\ call.pc = "loop"
  /\ Len(call.remaining) = 0
  /\ call' = [call EXCEPT !.pc = "returned"]
  /\ UNCHANGED <<instances, inst, starts, jobs, disp, nSprites, stopRequests,
                 now, clockSteps, reaperTimers>>

\* one iteration of the loop
ChunkIteration ==
  /\ call.op = "chunkText"
  /\ call.pc = "loop"
  /\ Len(call.remaining) > 0
  /\ IF Len(call.remaining) <= call.maxLength
       THEN call' = [call EXCEPT !.chunks = Append(@, call.remaining),
                                 !.pc = "returned"]
       ELSE LET breakPoint == BreakPoint(call.remaining, call.maxLength) IN
            call' = [call EXCEPT
                       !.chunks = Append(@, Slice(call.remaining, 0, breakPoint)),
                       !.remaining =
                          Trim(Slice(call.remaining, breakPoint, Len(call.remaining)))]
  /\ UNCHANGED <<instances, inst, starts, jobs, disp, nSprites, stopRequests,
                 now, clockSteps, reaperTimers>>

ChunkNext ==
  \/ \E text \in Texts, maxLength \in 1..MaxChunkLength : ChunkTextCall(text, maxLength)
  \/ ChunkReturn
  \/ ChunkIteration

\* the loop keeps running until it returns
ChunkSpec ==
  Init /\ [][ChunkNext]_vars /\ WF_vars(ChunkReturn) /\ WF_vars(ChunkIteration)

\* ------------------------------------------------------------- properties

\* C1: a Job's status only moves forward along PENDING -> RUNNING ->
\* {COMPLETED, FAILED} (a PENDING Job may be failed directly); no step of any
\* flow moves it backward or out of COMPLETED or FAILED.
C1_StatusOnlyForward ==
  [][\A j \in DOMAIN jobs :
       j \in DOMAIN jobs' =>
         \/ jobs'[j].status = jobs[j].status
         \/ <<jobs[j].status, jobs'[j].status>> \in
              {<<"PENDING", "RUNNING">>, <<"PENDING", "FAILED">>,
               <<"RUNNING", "COMPLETED">>, <<"RUNNING", "FAILED">>}]_vars

\* C1 witness: the external signal failed a one-shot Job, and afterwards the
\* dispatch's own status update ran on it: the Job is still FAILED with the
\* signal's reason.
C1_Witness ==
  \E j \in DOMAIN disp :
    /\ disp[j].mode = "oneshot"
    /\ disp[j].signalled = "failed"
    /\ disp[j].pc = "done"
    /\ disp[j].result.streamed
    /\ jobs[j].status = "FAILED"
    /\ jobs[j].reason = "agent crashed"

\* C2: every one-shot Job that received its completion signal and whose
\* dispatch has settled had its onComplete continuation invoked exactly once.
C2_OnCompleteExactlyOnce ==
  \A j \in DOMAIN disp :
    (disp[j].mode = "oneshot" /\ disp[j].signalled # "none" /\ disp[j].pc = "done")
      => disp[j].onCompleteCalls = 1

\* C3: once a Job is COMPLETED or FAILED, no step changes its status, exitCode,
\* reason or completedAt: a further complete or fail call is a no-op.
C3_TerminalJobFrozen ==
  [][\A j \in DOMAIN jobs :
       (IsTerminal(jobs[j]) /\ j \in DOMAIN jobs') =>
         /\ jobs'[j].status = jobs[j].status
         /\ jobs'[j].exitCode = jobs[j].exitCode
         /\ jobs'[j].reason = jobs[j].reason
         /\ jobs'[j].completedAt = jobs[j].completedAt]_vars

\* C3 witness: a Job completed by the external signal, on which the dispatch's
\* error handler called fail at a later time: it kept status, exitCode, reason
\* and completedAt.
C3_Witness ==
  \E j \in DOMAIN disp :
    /\ disp[j].signalled = "completed"
    /\ disp[j].pc = "done"
    /\ disp[j].result.error = TimedOutMsg
    /\ jobs[j].status = "COMPLETED"
    /\ jobs[j].exitCode = 0
    /\ jobs[j].reason = ""
    /\ jobs[j].completedAt < now

\* C4: an instance that has dispatched nothing yet has currentJob null; with a
\* single dispatch, currentJob is that Job while the dispatch is outstanding and
\* null once sendToInstance has resolved, whatever the outcome and the mode.
C4_CurrentJobLifecycle ==
  \A o \in DOMAIN inst :
    /\ inst[o].messageCount = 0 => inst[o].currentJob = Null
    /\ inst[o].messageCount = 1 =>
         \A j \in DOMAIN disp :
           disp[j].inst = o =>
             inst[o].currentJob = (IF disp[j].pc = "done" THEN Null ELSE j)

\* C4 witness: an instance whose single dispatch has resolved with a failure
\* while the instance was still registered, and whose currentJob is null again.
C4_Witness ==
  \E j \in DOMAIN disp :
    /\ disp[j].pc = "done"
    /\ disp[j].result.settled
    /\ ~disp[j].result.success
    /\ jobs[j].status = "FAILED"
    /\ inst[disp[j].inst].messageCount = 1
    /\ inst[disp[j].inst].currentJob = Null
    /\ \E id \in DOMAIN instances : instances[id] = disp[j].inst

\* C5: a one-shot dispatch with timeoutMs = T that receives no completion signal
\* is not left waiting once T has elapsed, and its timed-out result has
\* success false, the jobId, and a FAILED Job.
C5_TimesOutAfterT ==
  \A j \in DOMAIN disp :
    (disp[j].mode = "oneshot" /\ disp[j].timeoutMs > 0 /\ disp[j].signalled = "none")
      => /\ disp[j].pc = "waiting" => now - disp[j].waitStart <= disp[j].timeoutMs
         /\ (disp[j].pc = "done" /\ ContainsTimedOut(disp[j].result.error)) =>
              /\ ~disp[j].result.success
              /\ disp[j].result.jobId = j
              /\ jobs[j].status = "FAILED"

\* C6: after the external signal completed a RUNNING one-shot Job with exit
\* code 0, the Job stays COMPLETED with exit code 0 and the dispatch's result,
\* once settled, has success true and the jobId.
C6_SignalSettlesSuccess ==
  \A j \in DOMAIN disp :
    (disp[j].mode = "oneshot" /\ disp[j].signalled = "completed")
      => /\ jobs[j].status = "COMPLETED"
         /\ jobs[j].exitCode = 0
         /\ disp[j].pc = "done" =>
              (disp[j].result.success /\ disp[j].result.jobId = j)

\* C7: startInstance with an instanceId already in the registry fails with
\* "already running" and changes nothing: no Job, no request to the
\* Orchestrator, the registry and the existing record as they were.
C7_DuplicateStartRejected ==
  [][\A id \in InstanceIds :
       (call'.op = "startInstance" /\ call'.id = id /\ id \in DOMAIN instances) =>
         /\ call'.result = "already running"
         /\ UNCHANGED <<instances, inst, starts, jobs, disp, nSprites,
                        stopRequests>>]_vars

\* C7 witness: a duplicate startInstance was just rejected while the existing
\* instance has a dispatch outstanding.
C7_Witness ==
  /\ call.op = "startInstance"
  /\ call.result = "already running"
  /\ call.id \in DOMAIN instances
  /\ inst[instances[call.id]].currentJob # Null

\* C8 as stated: a successful persistent dispatch with opts.onMessage whose
\* stream delivered N outputs invoked onMessage exactly N times, with the
\* outputs in order, logged N lines, and reports streamed.
C8_OnMessageExactlyN ==
  \A j \in DOMAIN disp :
    (/\ disp[j].mode = "persistent"
     /\ disp[j].onMsg
     /\ disp[j].pc = "done"
     /\ disp[j].result.success)
      => /\ Len(disp[j].msgs) = disp[j].emitted
         /\ \A k \in 1..Len(disp[j].msgs) : disp[j].msgs[k] = k
         /\ Len(jobs[j].logs) = disp[j].emitted
         /\ disp[j].result.streamed

\* C8 amended: in a persistent dispatch with opts.onMessage, onMessage is
\* invoked once with the sending notice and then once per output, in order
\* (N + 1 invocations for N outputs); the Job's logs are the N outputs in
\* order, all appended before the result (the outputs up to the external
\* signal, when one made the Job terminal while the stream was running); the
\* result of a stream that resolved is streamed, and successful when the exit
\* code is 0.
C8_NoticeThenOutputs ==
  \A j \in DOMAIN disp :
    (disp[j].mode = "persistent" /\ disp[j].onMsg)
      => /\ Len(disp[j].msgs) = disp[j].emitted + 1
         /\ disp[j].msgs[1] = NoticeMsg
         /\ \A k \in 1..disp[j].emitted : disp[j].msgs[k + 1] = k
         /\ disp[j].signalled = "none" => Len(jobs[j].logs) = disp[j].emitted
         /\ Len(jobs[j].logs) <= disp[j].emitted
         /\ \A k \in 1..Len(jobs[j].logs) : jobs[j].logs[k] = k
         /\ (disp[j].pc = "done" /\ disp[j].result.hasExit) =>
              /\ disp[j].result.streamed
              /\ disp[j].result.success = (disp[j].result.exitCode = 0)

\* C8 witness: a persistent dispatch with opts.onMessage that streamed
\* MaxOutputs outputs and resolved with success.
C8_Witness ==
  \E j \in DOMAIN disp :
    /\ disp[j].mode = "persistent"
    /\ disp[j].onMsg
    /\ disp[j].emitted = MaxOutputs
    /\ disp[j].pc = "done"
    /\ disp[j].result.success
    /\ disp[j].result.streamed
    /\ Len(disp[j].msgs) = MaxOutputs + 1

\* C9: a one-shot Job with a deadline that no signal and no other path has
\* resolved, and that started at least twice its deadline ago (1000 ms against
\* 500 ms), has been swept: it is FAILED with a timeout reason and its owner's
\* currentJob is null.
C9_StaleJobReaped ==
  \A j \in DOMAIN disp :
    (/\ disp[j].mode = "oneshot"
     /\ disp[j].timeoutMs > 0
     /\ disp[j].signalled = "none"
     /\ disp[j].pc = "waiting"
     /\ jobs[j].startedAt # NoTime
     /\ now - jobs[j].startedAt >= 2 * disp[j].timeoutMs)
      => /\ jobs[j].status = "FAILED"
         /\ ContainsTimedOut(jobs[j].reason)
         /\ inst[disp[j].inst].currentJob = Null

\* C10: startStaleReaper and stopStaleReaper can be called any number of times
\* without an error; at most one sweep timer is armed, and none after
\* stopStaleReaper.
C10_ReaperStartStop ==
  /\ call.op \in ReaperMethods => call.result # "TypeError"
  /\ reaperTimers <= 1
  /\ call.op = "stopStaleReaper" => reaperTimers = 0

\* C11: a persistent startInstance whose provisioning failed reported failure
\* and its Instance record is not in the registry, so the id can be started
\* again; one that succeeded reported the returned remote target id, and the
\* Instance holds that id.
C11_PersistentStart ==
  \A o \in DOMAIN starts :
    inst[o].persistent =>
      /\ starts[o].res = "failed" =>
           /\ \A k \in DOMAIN instances : instances[k] # o
           /\ inst[o].spriteId = Null
      /\ starts[o].res = "ok" =>
           /\ starts[o].spriteId # Null
           /\ inst[o].spriteId = starts[o].spriteId

\* C11 witness: provisioning failed for one persistent start, and the same id
\* was then started again as persistent and provisioned.
C11_Witness ==
  \E o \in DOMAIN starts :
    /\ inst[o].persistent
    /\ starts[o].res = "failed"
    /\ starts[o].id \in DOMAIN instances
    /\ instances[starts[o].id] # o
    /\ starts[instances[starts[o].id]].res = "ok"
    /\ inst[instances[starts[o].id]].spriteId # Null

\* C12: stopInstance on an absent id reports not found and changes nothing;
\* on a present id it removes the record and reports success in the same step,
\* while its stop requests are still in flight; a stop request that fails later
\* changes nothing else.
C12_StopInstance ==
  [][/\ \A id \in InstanceIds :
          (call'.op = "stopInstance" /\ call'.id = id) =>
            IF id \notin DOMAIN instances
              THEN /\ call'.result = "not found"
                   /\ UNCHANGED <<instances, inst, starts, jobs, disp, nSprites,
                                  stopRequests>>
              ELSE /\ call'.result = "ok"
                   /\ id \notin DOMAIN instances'
                   /\ \A s \in StopTargets(instances[id]) :
                        s \in DOMAIN stopRequests' /\ stopRequests'[s] = "sent"
                   /\ UNCHANGED <<inst, starts, jobs, disp>>
     /\ (\E s \in DOMAIN stopRequests : stopRequests'[s] # stopRequests[s]) =>
          UNCHANGED <<instances, inst, starts, jobs, disp, nSprites>>]_vars

\* C12 witness: an instance with a remote target was stopped, its stop request
\* failed afterwards, and the registry no longer holds the id.
C12_Witness ==
  \E o \in DOMAIN inst :
    /\ inst[o].spriteId # Null
    /\ inst[o].spriteId \in DOMAIN stopRequests
    /\ stopRequests[inst[o].spriteId] = "failed"
    /\ starts[o].id \notin DOMAIN instances

\* C13: no startInstance, stopInstance or sendToInstance lets an error escape:
\* every call on the interface has a structured outcome, every finished
\* dispatch holds a structured result with its jobId, and a result that
\* stands for an exception or rejection of an Orchestrator call has success
\* false and the error's message.
C13_NoErrorEscapes ==
  /\ call.op \in {"startInstance", "stopInstance", "sendToInstance"} =>
       call.result \in {"ok", "pending", "already running", "not found"}
  /\ \A o \in DOMAIN starts : starts[o].res \in {"pending", "ok", "failed"}
  /\ \A j \in DOMAIN disp :
       disp[j].pc = "done" =>
         /\ disp[j].result.settled
         /\ disp[j].result.jobId = j
         /\ disp[j].result.hasExit \/
              (~disp[j].result.success /\ disp[j].result.error # "")

\* C13 witness: provisioning of a persistent start was rejected, and a dispatch
\* whose status poll threw has resolved with a structured failure.
C13_Witness ==
  /\ \E o \in DOMAIN starts : starts[o].res = "failed"
  /\ \E j \in DOMAIN disp :
       /\ disp[j].pc = "done"
       /\ disp[j].result.settled
       /\ ~disp[j].result.success
       /\ disp[j].result.error = "Failed to get sprite status"

C16_SendToAbsentInstance ==
  [][\A id \in InstanceIds :
       (call'.op = "sendToInstance" /\ call'.id = id /\ id \notin DOMAIN instances) =>
         /\ call'.result = "not found"
         /\ UNCHANGED <<instances, inst, starts, jobs, disp, nSprites,
                        stopRequests>>]_vars

\* C16 witness: sendToInstance was just rejected for an id that was stopped
\* while its dispatch is still outstanding; the Job set holds only that Job.
C16_Witness ==
  /\ call.op = "sendToInstance"
  /\ call.result = "not found"
  /\ call.id \notin DOMAIN instances
  /\ Len(jobs) = 1
  /\ disp[1].pc # "done"

\* C19: a startInstance without opts.persistent that creates an instance
\* reports success in the same step and makes no Orchestrator call: nothing is
\* provisioning, no remote target is created or stopped, and the new Instance
\* has spriteId null and currentJob null; no later step gives a non-persistent
\* Instance a remote target.
C19_PlainStart ==
  [][/\ \A id \in InstanceIds :
          (/\ call'.op = "startInstance"
           /\ call'.id = id
           /\ Len(inst') = Len(inst) + 1
           /\ ~inst'[Len(inst')].persistent) =>
            /\ call'.result = "ok"
            /\ id \in DOMAIN instances'
            /\ instances'[id] = Len(inst')
            /\ starts'[Len(inst')].res = "ok"
            /\ inst'[Len(inst')].spriteId = Null
            /\ inst'[Len(inst')].currentJob = Null
            /\ UNCHANGED <<jobs, disp, nSprites, stopRequests>>
     /\ \A o \in DOMAIN inst' :
          ~inst'[o].persistent =>
            (inst'[o].spriteId = Null /\ starts'[o].res = "ok")]_vars

\* C19 witness: a non-persistent startInstance just succeeded for an id that
\* had a persistent instance with a remote target before.
C19_Witness ==
  /\ call.op = "startInstance"
  /\ call.result = "ok"
  /\ call.id \in DOMAIN instances
  /\ ~inst[instances[call.id]].persistent
  /\ inst[instances[call.id]].spriteId = Null
  /\ inst[instances[call.id]].currentJob = Null
  /\ nSprites = 1
  /\ Len(inst) = 2

\* C20: sendToInstance on a persistent Instance with a remote target starts
\* streaming execution on that target; on any other Instance it starts exactly
\* one spawn.  A persistent dispatch never creates a remote target; a one-shot
\* dispatch creates one when its spawn succeeds and none afterwards, and that
\* target is fresh: no Instance and no other Job has it.
C20_StreamOrSpawn ==
  [][/\ \A id \in InstanceIds :
          (call'.op = "sendToInstance" /\ call'.id = id /\ id \in DOMAIN instances) =>
            /\ Len(jobs') = Len(jobs) + 1
            /\ Len(disp') = Len(jobs')
            /\ disp'[Len(jobs')].inst = instances[id]
            /\ nSprites' = nSprites
            /\ IF inst[instances[id]].persistent /\ inst[instances[id]].spriteId # Null
                 THEN /\ disp'[Len(jobs')].mode = "persistent"
                      /\ disp'[Len(jobs')].pc = "streaming"
                      /\ jobs'[Len(jobs')].spriteId = inst[instances[id]].spriteId
                 ELSE /\ disp'[Len(jobs')].mode = "oneshot"
                      /\ disp'[Len(jobs')].pc = "spawning"
                      /\ jobs'[Len(jobs')].spriteId = Null
     /\ \A j \in DOMAIN disp :
          disp'[j] # disp[j] =>
            /\ disp'[j].mode = disp[j].mode
            /\ nSprites' = (IF /\ disp[j].mode = "oneshot"
                               /\ disp[j].pc = "spawning"
                               /\ disp'[j].pc = "waiting"
                              THEN nSprites + 1 ELSE nSprites)
     /\ \A j \in DOMAIN disp' :
          (disp'[j].mode = "oneshot" /\ jobs'[j].spriteId # Null) =>
            /\ \A o \in DOMAIN inst' : inst'[o].spriteId # jobs'[j].spriteId
            /\ \A k \in DOMAIN disp' :
                 k # j => jobs'[k].spriteId # jobs'[j].spriteId]_vars

\* C20 witness: one persistent Instance with two dispatches: the first, sent
\* while the Instance had no remote target yet, spawned its own target; the
\* second streams on the Instance's target; two targets exist in all.
C20_Witness ==
  \E j, k \in DOMAIN disp :
    /\ disp[j].inst = disp[k].inst
    /\ inst[disp[j].inst].persistent
    /\ disp[j].mode = "oneshot"
    /\ jobs[j].spriteId # Null
    /\ disp[k].mode = "persistent"
    /\ jobs[k].spriteId = inst[disp[k].inst].spriteId
    /\ jobs[j].spriteId # jobs[k].spriteId
    /\ nSprites = 2

\* C17: for every input string over the alphabet, the shell reads the
\* escaper's output as exactly one word equal to the input, and reads the
\* command buildArgs builds as eight words with no operator, the last of which
\* is the message.
C17_EscaperRoundTrip ==
  /\ call.op = "_escapeShell" =>
       ShellWords(call.result) = <<Word(call.message)>>
  /\ call.op = "buildArgs" =>
       LET words == ShellWords(Join(call.result, " ")) IN
       /\ Len(words) = 8
       /\ \A k \in 1..Len(words) : ~words[k].op
       /\ words[1].text = <<call.agentType>>
       /\ words[6].text = <<SessionId>>
       /\ words[7].text = (IF call.agentType = "opencode" THEN <<"--">> ELSE <<"-p">>)
       /\ words[8].text = call.message

\* C17 witness: buildArgs was called with a message made of a single quote, a
\* semicolon and a pipe, and the shell reads it back as the last word.
C17_Witness ==
  /\ call.op = "buildArgs"
  /\ call.message = <<"'", ";", "|">>
  /\ ShellWords(Join(call.result, " "))[8] = Word(<<"'", ";", "|">>)

C21_JobsStayRegistered ==
  [][/\ \A j \in DOMAIN jobs : GetJob(j)' # NullJob /\ j \in DOMAIN ListJobs'
     /\ \A j \in DOMAIN disp' : GetJob(j)' # NullJob /\ ListJobs'[j].jobId = j]_vars

\* C21 witness: a Job that reached a terminal status and whose instance was
\* stopped afterwards is still returned by getJob and listed by listJobs.
C21_Witness ==
  \E j \in DOMAIN disp :
    /\ disp[j].pc = "done"
    /\ \A id \in DOMAIN instances : instances[id] # disp[j].inst
    /\ GetJob(j) # NullJob
    /\ IsTerminal(GetJob(j))
    /\ ListJobs[j].status = GetJob(j).status

\* C22: in every state an instance's currentJob is non-null exactly when some
\* sendToInstance call on that instance has not resolved yet, also when
\* several calls on the instance overlap.
C22_CurrentJobIffOutstanding ==
  \A o \in DOMAIN inst :
    (inst[o].currentJob # Null) <=>
      (\E j \in DOMAIN disp : disp[j].inst = o /\ disp[j].pc # "done")

\* C23: at every instant the Jobs of one instance include at most one that
\* is PENDING or RUNNING.
C23_AtMostOneActiveJob ==
  \A j, k \in DOMAIN disp :
    (j # k /\ disp[j].inst = disp[k].inst) =>
      (IsTerminal(jobs[j]) \/ IsTerminal(jobs[k]))

\* C24: when the external signal and the dispatch's own timeout both act on
\* one RUNNING one-shot Job, the Job carries the outcome of the one that came
\* first, the settled result reports that same outcome, and onComplete ran
\* exactly once.
C24_RaceOneWinner ==
  \A j \in DOMAIN disp :
    (/\ disp[j].mode = "oneshot"
     /\ jobs[j].startedAt # NoTime
     /\ disp[j].signalled # "none"
     /\ disp[j].pc = "done")
      => /\ jobs[j].status =
              (IF disp[j].signalled = "completed" THEN "COMPLETED" ELSE "FAILED")
         /\ disp[j].result.success = (jobs[j].status = "COMPLETED")
         /\ disp[j].onCompleteCalls = 1

\* C25: for a RUNNING one-shot Job that no other path resolved and that is
\* past its deadline by a full sweep interval, the sweep performed the
\* transition itself, so it cleared the owner's currentJob and requested the
\* teardown of the Job's remote target; a Job that is not past its deadline is
\* left RUNNING.
C25_SweepEffects ==
  \A j \in DOMAIN disp :
    (/\ disp[j].mode = "oneshot"
     /\ disp[j].timeoutMs > 0
     /\ disp[j].signalled = "none"
     /\ disp[j].pc = "waiting"
     /\ jobs[j].startedAt # NoTime)
      => IF now - jobs[j].startedAt >= 2 * disp[j].timeoutMs
           THEN /\ inst[disp[j].inst].currentJob # j
                /\ jobs[j].spriteId \in DOMAIN stopRequests
           ELSE jobs[j].status = "RUNNING"

\* C26: the step in which a one-shot dispatch's timeout elapses fails the Job
\* with a timed-out reason and runs onComplete once when the Job is still
\* RUNNING, and changes neither the Job nor any instance and runs nothing when
\* the Job is already terminal.
C26_TimerOnlyIfRunning ==
  [][\A j \in DOMAIN disp :
       (/\ disp[j].pc = "waiting"
        /\ disp'[j].pc = "done"
        /\ ContainsTimedOut(disp'[j].result.error))
         => IF jobs[j].status = "RUNNING"
              THEN /\ jobs'[j].status = "FAILED"
                   /\ ContainsTimedOut(jobs'[j].reason)
                   /\ disp'[j].onCompleteCalls = disp[j].onCompleteCalls + 1
              ELSE /\ jobs' = jobs
                   /\ inst' = inst
                   /\ disp'[j].onCompleteCalls = disp[j].onCompleteCalls]_vars

\* C30: in every step each Job's logs after the step begin with its logs
\* before it and its artifacts do not get fewer, and a step taken when the Job
\* is already terminal leaves both as they were: a log line or an artifact
\* arriving after the Job was resolved is not added.
C30_LogsAppendOnly ==
  [][\A j \in DOMAIN jobs :
       /\ Len(jobs[j].logs) <= Len(jobs'[j].logs)
       /\ SubSeq(jobs'[j].logs, 1, Len(jobs[j].logs)) = jobs[j].logs
       /\ jobs[j].artifacts <= jobs'[j].artifacts
       /\ IsTerminal(jobs[j]) =>
            /\ jobs'[j].logs = jobs[j].logs
            /\ jobs'[j].artifacts = jobs[j].artifacts]_vars

\* C30 witness: a one-shot Job that the external signal resolved before its
\* first log line arrived: the line was relayed to onMessage but the Job's
\* logs are still empty, and the dispatch has since settled.
C30_Witness ==
  \E j \in DOMAIN disp :
    /\ disp[j].mode = "oneshot"
    /\ disp[j].signalled # "none"
    /\ disp[j].emitted = 1
    /\ Len(disp[j].msgs) = 2
    /\ jobs[j].logs = <<>>
    /\ IsTerminal(jobs[j])
    /\ disp[j].pc = "done"

\* C28: the job.start of spawnJob, on a Job that is no longer PENDING, leaves
\* status, remote target id and startedAt as they were and reports a logic
\* error; on a PENDING Job it reports the start and the Job is RUNNING with
\* the new target's id and the current time.  The job.start of a persistent
\* dispatch is always on a new PENDING Job.
C28_StartOnlyFromPending ==
  [][/\ \A j \in DOMAIN disp :
          (disp[j].pc = "spawning" /\ disp'[j].pc = "waiting") =>
            IF jobs[j].status = "PENDING"
              THEN /\ JobStartReport(jobs[j]) = "started"
                   /\ jobs'[j].status = "RUNNING"
                   /\ jobs'[j].spriteId = nSprites'
                   /\ jobs'[j].startedAt = now
              ELSE /\ JobStartReport(jobs[j]) = "logic error"
                   /\ jobs'[j].status = jobs[j].status
                   /\ jobs'[j].spriteId = jobs[j].spriteId
                   /\ jobs'[j].startedAt = jobs[j].startedAt
     /\ \A j \in (DOMAIN disp') \ (DOMAIN disp) :
          disp'[j].mode = "persistent" =>
            /\ jobs'[j].status = "RUNNING"
            /\ jobs'[j].spriteId = inst[disp'[j].inst].spriteId
            /\ jobs'[j].startedAt = now]_vars

\* C28 witness: spawnJob called job.start on a Job the external signal had
\* already failed while it was PENDING: the Job is still FAILED, without a
\* target id or start time, although the target was created and the dispatch
\* went on to wait for it.
C28_Witness ==
  \E j \in DOMAIN disp :
    /\ disp[j].pc = "waiting"
    /\ disp[j].signalled = "failed"
    /\ jobs[j].status = "FAILED"
    /\ jobs[j].spriteId = Null
    /\ jobs[j].startedAt = NoTime
    /\ JobStartReport(jobs[j]) = "logic error"
    /\ nSprites >= 1

\* C29: a step makes a Job COMPLETED only from RUNNING and FAILED only from
\* RUNNING or PENDING; complete on a PENDING Job would leave it PENDING while
\* fail moves it; and the Job of a dispatch whose provisioning failed is
\* FAILED although it never started.
C29_CompleteFromRunningFailAlsoFromPending ==
  [][\A j \in DOMAIN jobs :
       /\ (jobs'[j].status = "COMPLETED" /\ jobs[j].status # "COMPLETED") =>
            (jobs[j].status = "RUNNING" /\ JobCompleteMoves(jobs[j]))
       /\ (jobs'[j].status = "FAILED" /\ jobs[j].status # "FAILED") =>
            (jobs[j].status \in {"PENDING", "RUNNING"} /\ JobFailMoves(jobs[j]))
       /\ jobs[j].status = "PENDING" =>
            /\ JobComplete(jobs[j], 0, now).status = "PENDING"
            /\ JobFail(jobs[j], "Sprite API error", NoExit, now).status = "FAILED"
       /\ (disp[j].pc = "spawning" /\ disp'[j].pc = "done") =>
            /\ jobs'[j].status = "FAILED"
            /\ jobs'[j].startedAt = NoTime]_vars

\* C29 witness: a one-shot Job whose provisioning failed while it was
\* PENDING: it is FAILED with the provisioning error, was never started, and
\* its dispatch resolved with that error.
C29_Witness ==
  \E j \in DOMAIN disp :
    /\ disp[j].mode = "oneshot"
    /\ disp[j].pc = "done"
    /\ disp[j].signalled = "none"
    /\ jobs[j].status = "FAILED"
    /\ jobs[j].reason = "Sprite API error"
    /\ jobs[j].startedAt = NoTime
    /\ jobs[j].spriteId = Null
    /\ disp[j].result.error = "Sprite API error"

\* C27: in the step in which a dispatch path makes its complete or fail call
\* on a started Job, the call reports a move exactly when the Job's status
\* changes in that step, and the path invokes onComplete when its call
\* reported a move and does not invoke it otherwise.
C27_OnCompleteOnlyFromMover ==
  [][\A j \in DOMAIN disp :
       (disp[j].pc \in {"streaming", "waiting", "collecting"} /\ disp'[j].pc = "done")
         => LET moved == jobs'[j].status # jobs[j].status IN
            /\ JobFailMoves(jobs[j]) = moved
            /\ JobCompleteMoves(jobs[j]) = moved
            /\ (disp'[j].onCompleteCalls = disp[j].onCompleteCalls + 1) <=> moved]_vars

\* C31: every Job a dispatch created eventually is COMPLETED or FAILED with
\* its sendToInstance call resolved, whether or not its instance was stopped
\* in between, and once terminal its status never changes again.
C31_EveryJobTerminates ==
  /\ \A j \in 1..MaxLiveJobs :
       (j \in DOMAIN disp) ~>
         (/\ j \in DOMAIN disp
          /\ disp[j].pc = "done"
          /\ disp[j].result.settled
          /\ IsTerminal(jobs[j]))
  /\ [][\A j \in DOMAIN jobs :
          IsTerminal(jobs[j]) => jobs'[j].status = jobs[j].status]_vars

\* C31 witness: a one-shot dispatch whose instance was stopped while the Job
\* was running on its target (the stop request names the Job's target) has
\* resolved, and its Job is terminal.
C31_Witness ==
  \E j \in DOMAIN disp :
    /\ disp[j].mode = "oneshot"
    /\ jobs[j].spriteId \in DOMAIN stopRequests
    /\ \A id \in DOMAIN instances : instances[id] # disp[j].inst
    /\ disp[j].pc = "done"
    /\ disp[j].result.settled
    /\ IsTerminal(jobs[j])

\* C32: whenever a dispatch has resolved with a jobId, its result has success
\* true exactly when the Job is COMPLETED, the Job is FAILED when success is
\* false, and the result's exit code is the one recorded on the Job, in the
\* persistent and in the one-shot path.
C32_ResultMatchesJob ==
  \A j \in DOMAIN disp :
    (disp[j].pc = "done" /\ disp[j].result.settled /\ disp[j].result.jobId = j)
      => /\ disp[j].result.success <=> (jobs[j].status = "COMPLETED")
         /\ ~disp[j].result.success => jobs[j].status = "FAILED"
         /\ disp[j].result.exitCode = jobs[j].exitCode

\* C33: a stopInstance on a present Instance sends a stop request for the
\* Instance's remote target when it has one, then one for its current Job's
\* target when that is assigned and differs, and no other; no target gets two
\* requests, in this call or over the run; the call reports success at once,
\* and a request that fails later changes nothing but its own outcome.
C33_StopRequests ==
  [][/\ \A id \in DOMAIN instances :
          (call'.op = "stopInstance" /\ call'.id = id) =>
            LET o == instances[id]
                cj == inst[o].currentJob
                own == IF inst[o].spriteId # Null THEN <<inst[o].spriteId>> ELSE <<>>
                jobs_ == IF /\ cj # Null
                            /\ jobs[cj].spriteId # Null
                            /\ jobs[cj].spriteId # inst[o].spriteId
                           THEN <<jobs[cj].spriteId>> ELSE <<>>
            IN
            /\ call'.stops = own \o jobs_
            /\ \A k, l \in DOMAIN call'.stops :
                 k # l => call'.stops[k] # call'.stops[l]
            /\ \A k \in DOMAIN call'.stops :
                 /\ call'.stops[k] \notin DOMAIN stopRequests
                 /\ stopRequests'[call'.stops[k]] = "sent"
            /\ DOMAIN stopRequests' =
                 (DOMAIN stopRequests) \cup {call'.stops[k] : k \in DOMAIN call'.stops}
            /\ call'.result = "ok"
     /\ \A s \in DOMAIN stopRequests :
          stopRequests'[s] # stopRequests[s] =>
            /\ stopRequests'[s] = "failed"
            /\ call' = NoCall
            /\ UNCHANGED <<instances, inst, starts, jobs, disp>>]_vars

\* C33 witness: a persistent Instance was stopped while a Job that had spawned
\* its own target was its current Job: two stop requests went out, one for the
\* Instance's target and one for the Job's, and one of them has failed since.
C33_Witness ==
  \E o \in DOMAIN inst, j \in DOMAIN disp :
    /\ disp[j].inst = o
    /\ inst[o].spriteId # Null
    /\ jobs[j].spriteId # Null
    /\ jobs[j].spriteId # inst[o].spriteId
    /\ {inst[o].spriteId, jobs[j].spriteId} \subseteq DOMAIN stopRequests
    /\ stopRequests[jobs[j].spriteId] = "failed"
    /\ starts[o].id \notin DOMAIN instances

\* C34: a getInstance, getInstanceByChannel or listInstances call, and a write
\* to an entry listInstances returned, leave the registry, the instance
\* objects and every Job as they were; getInstance returns the registered
\* instance or null for an unknown id; getInstanceByChannel returns a
\* registered instance on the given channel, or null when there is none;
\* listInstances returns one entry per registered instance, whose currentJob
\* is null or a copy of the current Job's status, exit code and log count.
C34_LookupsReadOnly ==
  [][call'.op \in {"getInstance", "getInstanceByChannel", "listInstances"} =>
       /\ UNCHANGED <<instances, inst, starts, jobs, disp, nSprites, stopRequests>>
       /\ call'.op = "getInstance" =>
            IF call'.id \in DOMAIN instances
              THEN call'.result = instances[call'.id]
              ELSE call'.result = Null
       /\ call'.op = "getInstanceByChannel" =>
            IF \E id \in DOMAIN instances : inst[instances[id]].channel = call'.id
              THEN /\ call'.result.instanceId \in DOMAIN instances
                   /\ call'.result.instance = instances[call'.result.instanceId]
                   /\ inst[call'.result.instance].channel = call'.id
              ELSE call'.result = NullEntry
       /\ (call'.op = "listInstances" /\ ~call'.written) =>
            LET list == call'.result IN
            /\ Len(list) = Cardinality(DOMAIN instances)
            /\ {list[k].instanceId : k \in DOMAIN list} = DOMAIN instances
            /\ \A k \in DOMAIN list :
                 LET o == instances[list[k].instanceId]
                     cj == inst[o].currentJob
                 IN
                 /\ list[k].channel = inst[o].channel
                 /\ list[k].messageCount = inst[o].messageCount
                 /\ ~list[k].currentJob.live
                 /\ IF cj = Null
                      THEN list[k].currentJob = NullSummary
                      ELSE /\ list[k].currentJob.status = jobs[cj].status
                           /\ list[k].currentJob.exitCode = jobs[cj].exitCode
                           /\ list[k].currentJob.logCount = Len(jobs[cj].logs)]_vars

\* C34 witness: listInstances returned two entries, the caller overwrote the
\* status in the currentJob of one of them, and the live Job of that instance
\* is still RUNNING with its log line.
C34_Witness ==
  /\ call.op = "listInstances"
  /\ call.written
  /\ Len(call.result) = 2
  /\ \E k \in DOMAIN call.result :
       LET cj == inst[instances[call.result[k].instanceId]].currentJob IN
       /\ call.result[k].currentJob.status = "CHANGED"
       /\ call.result[k].currentJob.logCount = 1
       /\ cj # Null
       /\ jobs[cj].status = "RUNNING"
       /\ Len(jobs[cj].logs) = 1

\* C35: for the empty message buildArgs returns a non-empty list whose last
\* element is an empty pair of quotes, and the shell reads the command as its
\* seven fixed words followed by one empty argument, with no operator;
\* _escapeShell of the empty string is read as one empty argument too.
C35_EmptyMessage ==
  (call.op \in {"buildArgs", "_escapeShell"} /\ call.message = <<>>) =>
    /\ call.op = "buildArgs" =>
         LET words == ShellWords(Join(call.result, " ")) IN
         /\ Len(call.result) > 0
         /\ call.result[Len(call.result)] = <<"'", "'">>
         /\ Len(words) = 8
         /\ \A k \in 1..Len(words) : ~words[k].op
         /\ words[8] = Word(<<>>)
    /\ call.op = "_escapeShell" =>
         ShellWords(call.result) = <<Word(<<>>)>>

\* C35 witness: buildArgs was called with the empty message for the opencode
\* agent and returned eight elements, the last one an empty quoted token.
C35_Witness ==
  /\ call.op = "buildArgs"
  /\ call.agentType = "opencode"
  /\ call.message = <<>>
  /\ Len(call.result) = 8
  /\ call.result[7] = <<"--">>
  /\ call.result[8] = <<"'", "'">>

\* C36: the step in which a persistent start's provisioning fails takes out of
\* the registry at most the record that start created: an id registered to
\* another instance object is still registered to it afterwards.
C36_RollbackOnlyOwnRecord ==
  [][\A o \in DOMAIN starts :
       (starts[o].res = "pending" /\ starts'[o].res = "failed") =>
         \A id \in DOMAIN instances :
           instances[id] # o =>
             (id \in DOMAIN instances' /\ instances'[id] = instances[id])]_vars

\* C37: in every state, each remote target a persistent start provisioned is
\* the spriteId of an instance that is in the registry, or a stop request has
\* been sent for it.
C37_PersistentTargetOwnedOrStopped ==
  \A o \in DOMAIN starts :
    starts[o].spriteId # Null =>
      \/ \E id \in DOMAIN instances :
            instances[id] = o /\ inst[o].spriteId = starts[o].spriteId
      \/ starts[o].spriteId \in DOMAIN stopRequests

\* C38: whenever the instance of a one-shot dispatch has been stopped (it is
\* out of the registry and no start was rolled back) and the dispatch's Job
\* runs on a remote target and is not terminal, a stop request has been sent
\* for that target.
C38_OneShotTargetStopped ==
  \A j \in DOMAIN disp :
    (/\ disp[j].mode = "oneshot"
     /\ jobs[j].spriteId # Null
     /\ ~IsTerminal(jobs[j])
     /\ \A id \in DOMAIN instances : instances[id] # disp[j].inst
     /\ \A o \in DOMAIN starts : starts[o].res # "failed")
      => jobs[j].spriteId \in DOMAIN stopRequests

\* C39: the step in which a dispatch resolves after its instance was taken out
\* of the registry leaves the registry as it is and changes no other instance
\* object: an instance started under the same id meanwhile keeps its
\* currentJob, messageCount and spriteId.
C39_LateTerminationFrame ==
  [][\A j \in DOMAIN disp :
       (/\ disp[j].pc # "done"
        /\ disp'[j].pc = "done"
        /\ \A id \in DOMAIN instances : instances[id] # disp[j].inst)
         => /\ instances' = instances
            /\ \A o \in DOMAIN inst :
                 o # disp[j].inst =>
                   /\ inst'[o].currentJob = inst[o].currentJob
                   /\ inst'[o].messageCount = inst[o].messageCount
                   /\ inst'[o].spriteId = inst[o].spriteId]_vars

\* C39 witness: the dispatch of a stopped instance has resolved while a new
\* instance registered under the same id has a dispatch of its own
\* outstanding, which is still its currentJob.
C39_Witness ==
  \E j, k \in DOMAIN disp :
    /\ disp[j].inst # disp[k].inst
    /\ starts[disp[j].inst].id = starts[disp[k].inst].id
    /\ starts[disp[k].inst].id \in DOMAIN instances
    /\ instances[starts[disp[k].inst].id] = disp[k].inst
    /\ disp[j].pc = "done"
    /\ IsTerminal(jobs[j])
    /\ inst[disp[j].inst].currentJob = Null
    /\ disp[k].pc = "waiting"
    /\ inst[disp[k].inst].currentJob = k
    /\ inst[disp[k].inst].messageCount = 1

\* C40: every chunkText call with maxLength >= 1 returns; no chunk is longer
\* than maxLength; the empty text returns the empty list; and every iteration
\* of the loop either pushes all of the remaining text and leaves the loop or
\* leaves a strictly shorter remaining text.
C40_ChunkTextTerminates ==
  /\ (call.op = "chunkText") ~> (call.op = "chunkText" /\ call.pc = "returned")
  /\ [][call'.op = "chunkText" =>
          /\ \A k \in DOMAIN call'.chunks : Len(call'.chunks[k]) <= call'.maxLength
          /\ (call'.pc = "returned" /\ call'.text = <<>>) => call'.chunks = <<>>
          /\ (call.op = "chunkText" /\ call.pc = "loop" /\ Len(call.remaining) > 0) =>
               \/ /\ call'.pc = "returned"
                  /\ call'.chunks = Append(call.chunks, call.remaining)
               \/ /\ call'.pc = "loop"
                  /\ Len(call'.remaining) < Len(call.remaining)]_vars

\* C40 witness: chunkText("a a\na", 3) has returned the chunks "a a" and "a":
\* the first iteration broke at the newline at index 3 and trimmed it away.
C40_Witness ==
  /\ call.op = "chunkText"
  /\ call.pc = "returned"
  /\ call.maxLength = 3
  /\ call.text = <<"a", " ", "a", "\n", "a">>
  /\ call.chunks = << <<"a", " ", "a">>, <<"a">> >>

====
